---- MODULE Spec2Model ----
(***************************************************************************)
(* A model of bot.py, the token-safety Telegram bot: the market-data       *)
(* client, the pair selector, the rug-pull risk classifier, the social     *)
(* mention client, the address patterns and the chat handlers that wire    *)
(* them to the per-user session (context.user_data).                       *)
(*                                                                         *)
(* JSON values and Python results are records tagged by the field t, so    *)
(* that a missing key, a JSON null, a number and an object stay distinct:  *)
(* dict.get(key, default) falls back to the default only for a MISSING     *)
(* key, never for a null one. A Python str is the sequence of its code     *)
(* points (ord of each character), so that every string a response or a    *)
(* message can hold has a value and strings order as Python orders them.   *)
(***************************************************************************)
EXTENDS Integers, Sequences, FiniteSets, TLC

VARIABLES
    selected_option,        \* context.user_data["selected_option"]
    token_address,          \* context.user_data["token_address"]
    update,                 \* the chat event the last handler was given
    response,               \* what the market-data service answered
    tweets,                 \* what the Twitter search answered
    posts,                  \* what the Reddit search listing yielded
    dex_pairs,              \* fetch_dexscreener_data's return value
    preferred_pair,         \* get_preferred_dex's return value
    rug_pull_risk,          \* analyze_rug_pull_risk's return value
    social_media_mentions,  \* fetch_social_media_mentions's return value
    chain,                  \* detect_blockchain's return value
    sent,                   \* the messages sent in answer to the last update
    raised                  \* the handler of the last update ended by raising

vars == <<selected_option, token_address, update, response, tweets, posts,
          dex_pairs, preferred_pair, rug_pull_risk, social_media_mentions,
          chain, sent, raised>>

---------------------------------------------------------------------------
(* JSON values *)

Absent == [t |-> "absent"]          \* the key is not in the dict
Null == [t |-> "null"]              \* JSON null, Python None
Num(n) == [t |-> "num", v |-> n]
Str(s) == [t |-> "str", s |-> s]    \* s: the code points of the string
\* "Not Available" and "N/A", the placeholders of the reports
NotAvailable == Str(<<78, 111, 116, 32, 65, 118, 97, 105, 108, 97, 98, 108, 101>>)
NA == Str(<<78, 47, 65>>)
Unset == [t |-> "unset"]            \* a local the handler never assigned
Raise(e) == [t |-> "raise", exc |-> e]

IsNum(x) == x.t = "num"
IsRaise(x) == x.t = "raise"
\* a Python dict: it has .get
IsDict(x) == x.t \in {"obj", "pair", "token"}
\* d.get(key): the value under the key, Absent when the dict has no such key
Get(d, key) == IF key \in DOMAIN d THEN d[key] ELSE Absent
\* the dict holds no key at all: {}
EmptyDict(d) == \A key \in DOMAIN d \ {"t"} : d[key] = Absent

\* the "liquidity" object of a pair: {"usd": ...}
LiquidityObj(usd) == [t |-> "obj", usd |-> usd]
\* the "priceChange" object of a pair: {"percent": ..., "h24": ...}
PriceChangeObj(percent, h24) == [t |-> "obj", percent |-> percent, h24 |-> h24]

\* one element of the "pairs" array, reduced to the keys bot.py reads
Pair(dexId, priceUsd, liquidity, marketCap, fdv, priceChange, url) ==
    [t |-> "pair", dexId |-> dexId, priceUsd |-> priceUsd, liquidity |-> liquidity,
     marketCap |-> marketCap, fdv |-> fdv, priceChange |-> priceChange,
     url |-> url]

\* the empty dict {}
EmptyPair == Pair(Absent, Absent, Absent, Absent, Absent, Absent, Absent)

\* Python truthiness of a pair dict: {} is falsy
PairIsEmpty(p) == EmptyDict(p)

---------------------------------------------------------------------------
(* analyze_rug_pull_risk *)

\* preferred_pair.get("liquidity", {}).get("usd", dflt): the second .get
\* needs a dict (AttributeError on anything else)
GetLiquidityUsd(p, dflt) ==
    LET liquidity == Get(p, "liquidity")
    IN  IF liquidity = Absent THEN dflt
        ELSE IF ~IsDict(liquidity) THEN Raise("AttributeError")
        ELSE IF Get(liquidity, "usd") = Absent THEN dflt
        ELSE Get(liquidity, "usd")

\* preferred_pair.get("priceChange", {}).get("h24", dflt)
GetPriceChangeH24(p, dflt) ==
    LET priceChange == Get(p, "priceChange")
    IN  IF priceChange = Absent THEN dflt
        ELSE IF ~IsDict(priceChange) THEN Raise("AttributeError")
        ELSE IF Get(priceChange, "h24") = Absent THEN dflt
        ELSE Get(priceChange, "h24")

\* preferred_pair.get("priceChange", {}).get("percent", <h24 or 0>): the
\* default argument is evaluated first, then the outer lookup
GetPriceChangePercent(p) ==
    LET h24 == GetPriceChangeH24(p, Num(0))
    IN  IF IsRaise(h24) THEN h24
        ELSE IF Get(p, "priceChange") = Absent THEN h24
        ELSE IF Get(p.priceChange, "percent") = Absent THEN h24
        ELSE Get(p.priceChange, "percent")

\* preferred_pair.get(key, dflt) for a top-level key
GetField(v, dflt) == IF v = Absent THEN dflt ELSE v

\* a plausible slip: the Medium level ending where the Moderate rule ends
liquidity_levelNarrow(liquidity) ==
    IF liquidity > 20000 THEN "High"
    ELSE IF liquidity >= 10000 THEN "Medium"
    ELSE "Low"

liquidity_level(liquidity) ==
    IF liquidity > 25000 THEN "High"
    ELSE IF liquidity >= 10000 THEN "Medium"
    ELSE "Low"

market_cap_level(market_cap) ==
    IF market_cap > 250000 THEN "High"
    ELSE IF market_cap >= 100000 THEN "Medium"
    ELSE "Low"

price_change_level(price_change_percentage) ==
    IF price_change_percentage > 500 THEN "Volatile"
    ELSE IF price_change_percentage <= 0 THEN "Negative"
    ELSE "Stable"

fdv_vs_market_cap(fdv, market_cap) ==
    IF fdv < market_cap THEN "FDV Lower Than Market Cap"
    ELSE IF fdv > market_cap THEN "FDV Higher Than Market Cap"
    ELSE "Balanced"

\* a plausible slip: the Critical test placed before the High test
RiskTierCriticalFirst(liquidity, market_cap, price_change_percentage, fdv) ==
    IF liquidity > 25000 /\ market_cap > 250000 /\ price_change_percentage <= 50
    THEN "Low"
    ELSE IF liquidity >= 10000 /\ liquidity <= 20000
            /\ (price_change_percentage > 50 \/ market_cap < 100000)
    THEN "Moderate"
    ELSE IF liquidity < 5000 \/ fdv < market_cap
    THEN "Critical"
    ELSE IF liquidity < 10000 \/ price_change_percentage <= 0
    THEN "High"
    ELSE IF price_change_percentage > 1000 \/ fdv > market_cap * 2
    THEN "Extreme"
    ELSE "Low to Moderate"

\* a plausible slip: the Moderate test with the Medium level's upper bound
RiskTierModerateWide(liquidity, market_cap, price_change_percentage, fdv) ==
    IF liquidity > 25000 /\ market_cap > 250000 /\ price_change_percentage <= 50
    THEN "Low"
    ELSE IF liquidity >= 10000 /\ liquidity <= 25000
            /\ (price_change_percentage > 50 \/ market_cap < 100000)
    THEN "Moderate"
    ELSE IF liquidity < 10000 \/ price_change_percentage <= 0
    THEN "High"
    ELSE IF liquidity < 5000 \/ fdv < market_cap
    THEN "Critical"
    ELSE IF price_change_percentage > 1000 \/ fdv > market_cap * 2
    THEN "Extreme"
    ELSE "Low to Moderate"

\* a plausible slip: the Critical test left with its liquidity half only,
\* which the High test before it already covers
RiskTierCriticalLiquidityOnly(liquidity, market_cap, price_change_percentage, fdv) ==
    IF liquidity > 25000 /\ market_cap > 250000 /\ price_change_percentage <= 50
    THEN "Low"
    ELSE IF liquidity >= 10000 /\ liquidity <= 20000
            /\ (price_change_percentage > 50 \/ market_cap < 100000)
    THEN "Moderate"
    ELSE IF liquidity < 10000 \/ price_change_percentage <= 0
    THEN "High"
    ELSE IF liquidity < 5000
    THEN "Critical"
    ELSE IF price_change_percentage > 1000 \/ fdv > market_cap * 2
    THEN "Extreme"
    ELSE "Low to Moderate"

\* the chain of if ...: return of the risk calculation
RiskTier(liquidity, market_cap, price_change_percentage, fdv) ==
    IF liquidity > 25000 /\ market_cap > 250000 /\ price_change_percentage <= 50
    THEN "Low"
    ELSE IF liquidity >= 10000 /\ liquidity <= 20000
            /\ (price_change_percentage > 50 \/ market_cap < 100000)
    THEN "Moderate"
    ELSE IF liquidity < 10000 \/ price_change_percentage <= 0
    THEN "High"
    ELSE IF liquidity < 5000 \/ fdv < market_cap
    THEN "Critical"
    ELSE IF price_change_percentage > 1000 \/ fdv > market_cap * 2
    THEN "Extreme"
    ELSE "Low to Moderate"

\* the returned text, as the values formatted into it
Verdict(liquidity, market_cap, price_change_percentage, fdv) ==
    [t |-> "verdict",
     tier |-> RiskTier(liquidity, market_cap, price_change_percentage, fdv),
     liquidity |-> liquidity,
     liquidity_level |-> liquidity_level(liquidity),
     market_cap |-> market_cap,
     market_cap_level |-> market_cap_level(market_cap),
     price_change_percentage |-> price_change_percentage,
     price_change_level |-> price_change_level(price_change_percentage),
     fdv_vs_market_cap |-> fdv_vs_market_cap(fdv, market_cap)]

\* The four lookups, then the comparisons: a lookup on a non-dict raises
\* AttributeError, a comparison of None with a number raises TypeError.
analyze_rug_pull_risk(p) ==
    LET liquidity == GetLiquidityUsd(p, Num(0))
        price_change_percentage == GetPriceChangePercent(p)
        market_cap == GetField(Get(p, "marketCap"), Num(0))
        fdv == GetField(Get(p, "fdv"), Num(0))
    IN  IF IsRaise(liquidity) THEN liquidity
        ELSE IF IsRaise(price_change_percentage) THEN price_change_percentage
        ELSE IF ~IsNum(liquidity) \/ ~IsNum(market_cap)
                \/ ~IsNum(price_change_percentage) \/ ~IsNum(fdv)
        THEN Raise("TypeError")
        ELSE Verdict(liquidity.v, market_cap.v, price_change_percentage.v, fdv.v)

---------------------------------------------------------------------------
(* fetch_dexscreener_data *)

\* a JSON array
JList(items) == [t |-> "list", items |-> items]
\* the body {"pairs": ...} of the market-data answer
PairsObj(pairs) == [t |-> "obj", pairs |-> pairs]

\* what requests.get / raise_for_status / response.json can produce
NetworkError == [t |-> "neterr"]             \* requests.get raises
HttpError == [t |-> "http"]                  \* raise_for_status raises
NotJson == [t |-> "badjson"]                 \* response.json raises
JsonBody(body) == [t |-> "json", body |-> body]

\* Everything inside the try block that raises ends in "return []";
\* otherwise data.get("pairs", []) is returned as it is, a list or not.
fetch_dexscreener_data(resp) ==
    IF resp.t # "json" THEN JList(<<>>)
    ELSE IF ~IsDict(resp.body) THEN JList(<<>>)     \* data.get: AttributeError
    ELSE IF Get(resp.body, "pairs") = Absent THEN JList(<<>>)
    ELSE Get(resp.body, "pairs")

---------------------------------------------------------------------------
(* get_preferred_dex *)

\* Python truthiness of what fetch_dexscreener_data returned, any JSON
\* value: None, 0, "", [] and {} are falsy
Falsy(x) ==
    \/ x.t = "null"
    \/ x.t = "num" /\ x.v = 0
    \/ x.t = "str" /\ x.s = <<>>
    \/ x.t = "list" /\ x.items = <<>>
    \/ IsDict(x) /\ EmptyDict(x)

\* the sort key lambda x: x.get("liquidity", {}).get("usd", 0); an element
\* that is not a dict has no .get
SortKey(x) ==
    IF IsDict(x) THEN GetLiquidityUsd(x, Num(0)) ELSE Raise("AttributeError")

\* a < b for two Python strings: by code point at the first position where
\* they differ, the shorter first when one is a prefix of the other
RECURSIVE StrLessFrom(_, _, _)
StrLessFrom(a, b, i) ==
    IF i > Len(b) THEN FALSE
    ELSE IF i > Len(a) THEN TRUE
    ELSE IF a[i] # b[i] THEN a[i] < b[i]
    ELSE StrLessFrom(a, b, i + 1)

\* a == b as Python evaluates it on two JSON values: dicts by their keys
\* and values, lists element by element, anything else by value
RECURSIVE Same(_, _)
Same(a, b) ==
    IF IsDict(a) /\ IsDict(b)
    THEN \A key \in (DOMAIN a \cup DOMAIN b) \ {"t"} : Same(Get(a, key), Get(b, key))
    ELSE IF a.t = "list" /\ b.t = "list"
    THEN /\ Len(a.items) = Len(b.items)
         /\ \A i \in 1..Len(a.items) : Same(a.items[i], b.items[i])
    ELSE a = b

\* a < b as Python evaluates it on two sort keys: "yes", "no", or "err"
\* where it raises TypeError. Numbers compare with numbers, strings with
\* strings, lists with lists (by their first unequal elements, else by
\* length); None, a dict, or two values of different kinds do not compare.
RECURSIVE Less(_, _)
Less(a, b) ==
    IF a.t = "num" /\ b.t = "num" THEN (IF a.v < b.v THEN "yes" ELSE "no")
    ELSE IF a.t = "str" /\ b.t = "str"
    THEN (IF StrLessFrom(a.s, b.s, 1) THEN "yes" ELSE "no")
    ELSE IF a.t = "list" /\ b.t = "list"
    THEN LET n == IF Len(a.items) < Len(b.items) THEN Len(a.items) ELSE Len(b.items)
             unequal == {i \in 1..n : ~Same(a.items[i], b.items[i])}
         IN  IF unequal = {}
             THEN (IF Len(a.items) < Len(b.items) THEN "yes" ELSE "no")
             ELSE LET i == CHOOSE k \in unequal : \A j \in unequal : k <= j
                  IN  Less(a.items[i], b.items[i])
    ELSE "err"

\* a plausible slip: an unstable sort, a later equal element put in front
RECURSIVE InsertDescendingUnstable(_, _)
InsertDescendingUnstable(s, x) ==
    IF s = <<>> THEN <<x>>
    ELSE IF Less(SortKey(x), SortKey(Head(s))) = "yes"
         THEN <<Head(s)>> \o InsertDescendingUnstable(Tail(s), x)
         ELSE <<x>> \o s

\* x put into the descending sequence s behind every element whose key is
\* not smaller: equal keys keep their input order (the sort is stable, and
\* reverse=True keeps it so)
RECURSIVE InsertDescending(_, _)
InsertDescending(s, x) ==
    IF s = <<>> THEN <<x>>
    ELSE IF Less(SortKey(Head(s)), SortKey(x)) = "no"
         THEN <<Head(s)>> \o InsertDescending(Tail(s), x)
         ELSE <<x>> \o s

RECURSIVE SortedDescending(_)
SortedDescending(s) ==
    IF s = <<>> THEN <<>>
    ELSE InsertDescending(SortedDescending(SubSeq(s, 1, Len(s) - 1)), s[Len(s)])

\* sorted(pairs, key=..., reverse=True). None or a number is not iterable
\* (TypeError). A string iterates its characters and a dict its keys, both
\* strings without .get (AttributeError), unless there is none to iterate.
\* Of a list the keys are computed for every element first (AttributeError
\* from the lambda), then, when there are two or more, the keys are
\* compared with <: keys that do not compare raise TypeError. (Every key
\* takes part in a comparison; where only some of the keys, lists, fail to
\* compare with each other, which of them the sort compares is its own
\* business, and the model raises.)
Sorted(pairs) ==
    IF pairs.t \in {"null", "num"} THEN Raise("TypeError")
    ELSE IF pairs.t = "str"
    THEN (IF pairs.s = <<>> THEN JList(<<>>) ELSE Raise("AttributeError"))
    ELSE IF IsDict(pairs)
    THEN (IF EmptyDict(pairs) THEN JList(<<>>) ELSE Raise("AttributeError"))
    ELSE LET items == pairs.items
             n == Len(items)
         IN  IF \E i \in 1..n : IsRaise(SortKey(items[i]))
             THEN Raise("AttributeError")
             ELSE IF \E i, j \in 1..n :
                        i # j /\ Less(SortKey(items[i]), SortKey(items[j])) = "err"
             THEN Raise("TypeError")
             ELSE JList(SortedDescending(items))

get_preferred_dex(pairs) ==
    IF Falsy(pairs) THEN EmptyPair
    ELSE LET sorted_pairs == Sorted(pairs)
         IN  IF IsRaise(sorted_pairs) THEN sorted_pairs
             ELSE sorted_pairs.items[1]

---------------------------------------------------------------------------
(* fetch_social_media_mentions *)

ResultLimit == 5        \* limit=5 of the Reddit search listing

\* twitter_client.search_recent_tweets: it raises, or answers with .data
\* None or a list of tweets
TweetsRaise == [t |-> "raise"]
TweetsData(data) == [t |-> "resp", data |-> data]

\* mentions_count["Twitter"]: len(tweets.data) if tweets.data else 0, and
\* the initial 0 when the search raised
TwitterCount(tw) ==
    IF tw.t = "raise" THEN 0
    ELSE IF tw.data.t = "list" /\ tw.data.items # <<>> THEN Len(tw.data.items)
    ELSE 0

\* The Reddit listing is a lazy iterator: a sequence of "post" items that
\* may hold a "raise" where fetching the next item fails. The for loop adds
\* one per post until the items end, the limit is reached or the iterator
\* raises; what was counted before the raise stays counted.
RECURSIVE RedditLoop(_, _)
RedditLoop(listing, count) ==
    IF listing = <<>> \/ count >= ResultLimit THEN count
    ELSE IF Head(listing) = "raise" THEN count
    ELSE RedditLoop(Tail(listing), count + 1)

RedditCount(listing) == RedditLoop(listing, 0)

\* both try blocks swallow every Exception: the function always returns
fetch_social_media_mentions(tw, listing) ==
    [t |-> "mentions", Twitter |-> TwitterCount(tw), Reddit |-> RedditCount(listing)]

---------------------------------------------------------------------------
(* fetch_boosted_tokens *)

BoostedLimit == 10      \* data[:10]

\* one element of the boosted-token array, reduced to the keys bot.py reads
BoostedToken(url, totalAmount) ==
    [t |-> "token", url |-> url, totalAmount |-> totalAmount]
\* one element of the list fetch_boosted_tokens returns
BoostedEntry(tokenLink, liquidity) ==
    [t |-> "boosted", tokenLink |-> tokenLink, liquidity |-> liquidity]

\* Python truthiness of a JSON value
Truthy(v) == ~Falsy(v)

\* token.get("url", "Not available") and token.get("totalAmount", ...)
\* "Not available"
NotAvailableLower == Str(<<78, 111, 116, 32, 97, 118, 97, 105, 108, 97, 98, 108, 101>>)

TokenLink(token) == GetField(Get(token, "url"), NotAvailableLower)
TokenLiquidity(token) == GetField(Get(token, "totalAmount"), NotAvailableLower)

\* requests.get or raise_for_status raising is a RequestException, caught:
\* []. A body that is not a list: []. Otherwise the first ten elements are
\* gone through: an element that is not a dict has no .get (AttributeError,
\* which the except clause does not catch); a token is kept when its link
\* and its amount are both truthy.
fetch_boosted_tokens(resp) ==
    IF resp.t \in {"neterr", "http"} THEN JList(<<>>)
    ELSE IF resp.body.t # "list" THEN JList(<<>>)
    ELSE LET data == resp.body.items
             first == SubSeq(data, 1, IF Len(data) < BoostedLimit THEN Len(data)
                                      ELSE BoostedLimit)
             kept(token) == Truthy(TokenLink(token)) /\ Truthy(TokenLiquidity(token))
             entry(token) == BoostedEntry(TokenLink(token), TokenLiquidity(token))
             chosen == SelectSeq(first, kept)
         IN  IF \E i \in 1..Len(first) : ~IsDict(first[i])
             THEN Raise("AttributeError")
             ELSE JList([i \in 1..Len(chosen) |-> entry(chosen[i])])

\* response.json() raising: a RequestException with the requests releases
\* whose JSONDecodeError derives from it, a plain ValueError with the older
\* ones; bot.py pins no release, so either
BoostedOutcomes(resp) ==
    IF resp.t = "badjson" THEN {JList(<<>>), Raise("JSONDecodeError")}
    ELSE {fetch_boosted_tokens(resp)}

---------------------------------------------------------------------------
(* Addresses: a text is the sequence of its code points *)

Digit == 48..57                                              \* 0-9
Lower == 97..122                                             \* a-z
Upper == 65..90                                              \* A-Z
\* the characters str.strip() removes, those str.isspace() holds for:
\* tab, newline, vertical tab, form feed, carriage return, the separators
\* 28 to 31, space, next line, no-break space and the Unicode spaces
Whitespace ==
    (9..13) \cup (28..32) \cup {133, 160, 5760} \cup (8192..8202)
        \cup {8232, 8233, 8239, 8287, 12288}

HexChar == Digit \cup (97..102) \cup (65..70)                 \* [a-fA-F0-9]
Base58Char == (Digit \ {48}) \cup (Upper \ {73, 79})
                 \cup (Lower \ {108})                        \* [1-9A-HJ-NP-Za-km-z]
AlnumChar == Digit \cup Lower \cup Upper                     \* [a-zA-Z0-9]

\* s is lo..hi characters of class
AllOf(s, class, lo, hi) ==
    Len(s) >= lo /\ Len(s) <= hi /\ \A i \in 1..Len(s) : s[i] \in class

\* re.match("^...$", s): $ matches at the end and also just before a final
\* newline
ReMatch(Body(_), s) ==
    \/ Body(s)
    \/ Len(s) >= 1 /\ s[Len(s)] = 10 /\ Body(SubSeq(s, 1, Len(s) - 1))

EthereumBody(s) ==
    Len(s) = 42 /\ s[1] = 48 /\ s[2] = 120 /\ AllOf(SubSeq(s, 3, 42), HexChar, 40, 40)
SolanaBody(s) == AllOf(s, Base58Char, 32, 44)
BinanceBody(s) == AllOf(s, AlnumChar, 42, 42)

MatchesEthereum(s) == ReMatch(EthereumBody, s)     \* ^0x[a-fA-F0-9]{40}$
MatchesSolana(s) == ReMatch(SolanaBody, s)         \* ^[1-9A-HJ-NP-Za-km-z]{32,44}$
MatchesBinance(s) == ReMatch(BinanceBody, s)       \* ^[a-zA-Z0-9]{42}$
MatchesPolygon(s) == ReMatch(EthereumBody, s)      \* the Ethereum pattern again

detect_blockchain(s) ==
    IF MatchesEthereum(s) THEN "Ethereum"
    ELSE IF MatchesSolana(s) THEN "Solana"
    ELSE IF MatchesBinance(s) THEN "Binance"
    ELSE IF MatchesPolygon(s) THEN "Polygon"
    ELSE "Unknown"

\* str.strip(): leading and trailing whitespace removed
RECURSIVE LStrip(_)
LStrip(s) == IF s # <<>> /\ Head(s) \in Whitespace THEN LStrip(Tail(s)) ELSE s
RECURSIVE RStrip(_)
RStrip(s) ==
    IF s # <<>> /\ s[Len(s)] \in Whitespace THEN RStrip(SubSeq(s, 1, Len(s) - 1))
    ELSE s
Strip(s) == RStrip(LStrip(s))

\* a plausible slip: the gate built from all of detect_blockchain's patterns
ValidAddressAnyChain(s) == MatchesEthereum(s) \/ MatchesSolana(s) \/ MatchesBinance(s)

\* the gate of handle_token_address:
\* re.match(r"^0x[a-fA-F0-9]{40}$|^[1-9A-HJ-NP-Za-km-z]{32,44}$", token_address)
ValidAddress(s) == MatchesEthereum(s) \/ MatchesSolana(s)

---------------------------------------------------------------------------
(* The chat handlers *)

Addr(chars) == [t |-> "addr", chars |-> chars]     \* a stored address
NoReport == [t |-> "none"]
NotShown == [t |-> "notshown"]      \* a field the message does not print
Percent(n) == [t |-> "percent", v |-> n]           \* f"{h24}%"

\* one message to the user: which text, its inline buttons' callback_data,
\* and the report it carries, if any
Msg(text, buttons) == [text |-> text, buttons |-> buttons, report |-> NoReport]
ReportMsg(report, buttons) == [text |-> "report", buttons |-> buttons, report |-> report]

MainMenuButtons == <<"analyze_token", "rug_pull_scan", "exit">>

\* the "24H Price Change" entry: the h24 value with a % sign when it is a
\* number, "Not Available" otherwise
Change24h(p) ==
    LET h24 == GetPriceChangeH24(p, Null)
    IN  IF IsRaise(h24) THEN h24
        ELSE IF IsNum(h24) THEN Percent(h24.v)
        ELSE NotAvailable

\* the pair fields as the message of the given path prints them
DexscreenerFields(kind, p) ==
    [DEX |-> GetField(Get(p, "dexId"), NA),
     Price |-> GetField(Get(p, "priceUsd"), NotAvailable),
     Liquidity |-> GetLiquidityUsd(p, NotAvailable),
     MarketCap |-> GetField(Get(p, "marketCap"), NotAvailable),
     FDV |-> IF kind = "rug_pull_scan" THEN NotShown
             ELSE GetField(Get(p, "fdv"), NotAvailable),
     Change24h |-> IF kind = "rug_pull_scan" THEN NotShown ELSE Change24h(p),
     URL |-> IF kind = "analyze_token" THEN GetField(Get(p, "url"), NA)
             ELSE NotShown]

FieldsRaise(f) == IsRaise(f.Liquidity) \/ IsRaise(f.Change24h)

ReportButtons(kind) ==
    IF kind = "rug_pull_scan" THEN <<"full_analysis", "go_back_to_menu">>
    ELSE <<"rug_pull_scan", "go_back_to_menu">>

\* the Reddit listing the handler iterated
Listing(items) == [t |-> "listing", items |-> items]

\* what a handler run leaves behind
Outcome(resp, tw, rd, dex, pref, risk, social, msgs, exc) ==
    [response |-> resp, tweets |-> tw, posts |-> rd, dex_pairs |-> dex,
     preferred_pair |-> pref, rug_pull_risk |-> risk,
     social_media_mentions |-> social, sent |-> msgs, raised |-> exc]

\* From the selected pair to the report message. analyze_token and
\* full_analysis build the field dict, then classify, then query the social
\* sources; rug_pull_scan classifies first. A step that raises ends the
\* handler: nothing after it runs and no report is sent.
Assemble(kind, addr, resp, tw, rd, dex, pref, before) ==
    LET fields == DexscreenerFields(kind, pref)
        risk == analyze_rug_pull_risk(pref)
        social == fetch_social_media_mentions(tw, rd)
        report == [t |-> "report", token_address |-> addr, fields |-> fields,
                   rug_pull_risk |-> risk, social_media_mentions |-> social]
    IN  IF kind # "rug_pull_scan" /\ FieldsRaise(fields)
        THEN Outcome(resp, Unset, Unset, dex, pref, Unset, Unset, before, TRUE)
        ELSE IF IsRaise(risk)
        THEN Outcome(resp, Unset, Unset, dex, pref, risk, Unset, before, TRUE)
        ELSE IF FieldsRaise(fields)
        THEN Outcome(resp, Unset, Unset, dex, pref, risk, Unset, before, TRUE)
        ELSE Outcome(resp, tw, Listing(rd), dex, pref, risk, social,
                     Append(before, ReportMsg(report, ReportButtons(kind))), FALSE)

\* the two branches of handle_token_address after the address is stored:
\* fetch, select, then assemble, with no check that a pair was found
SubmitPipeline(kind, addr, resp, tw, rd, before) ==
    LET dex == fetch_dexscreener_data(resp)
        pref == get_preferred_dex(dex)
    IN  IF IsRaise(pref)
        THEN Outcome(resp, Unset, Unset, dex, pref, Unset, Unset, before, TRUE)
        ELSE Assemble(kind, addr, resp, tw, rd, dex, pref, before)

\* full_token_analysis after the stored address is read: it stops with a
\* notice when the fetch gave nothing or the selected pair is empty
FullPipeline(addr, resp, tw, rd, before) ==
    LET dex == fetch_dexscreener_data(resp)
        pref == get_preferred_dex(dex)
    IN  IF Falsy(dex)
        THEN Outcome(resp, Unset, Unset, dex, Unset, Unset, Unset,
                     Append(before, Msg("no_data", <<>>)), FALSE)
        ELSE IF IsRaise(pref)
        THEN Outcome(resp, Unset, Unset, dex, pref, Unset, Unset, before, TRUE)
        ELSE IF PairIsEmpty(pref)
        THEN Outcome(resp, Unset, Unset, dex, pref, Unset, Unset,
                     Append(before, Msg("no_preferred", <<>>)), FALSE)
        ELSE Assemble("full_analysis", addr, resp, tw, rd, dex, pref, before)

\* a handler that calls no service
Quiet(msgs) ==
    Outcome(Unset, Unset, Unset, Unset, Unset, Unset, Unset, msgs, FALSE)

\* the handler's locals and messages become the observed state
Observe(o) ==
    /\ response' = o.response
    /\ tweets' = o.tweets
    /\ posts' = o.posts
    /\ dex_pairs' = o.dex_pairs
    /\ preferred_pair' = o.preferred_pair
    /\ rug_pull_risk' = o.rug_pull_risk
    /\ social_media_mentions' = o.social_media_mentions
    /\ sent' = o.sent
    /\ raised' = o.raised

\* the top-token message: one numbered line per token, each printing
\* token.get("address"), a key the entries do not have: None
TopTokensMsg(top_tokens) ==
    [text |-> "top_tokens", buttons |-> <<"go_back_to_menu">>,
     report |-> [t |-> "top", addresses |-> [i \in 1..Len(top_tokens.items) |-> Null]]]

\* top_tokens once the boosted tokens are fetched
TopPipeline(resp, top_tokens) ==
    IF IsRaise(top_tokens)
    THEN Outcome(resp, Unset, Unset, Unset, Unset, Unset, Unset, <<>>, TRUE)
    ELSE IF top_tokens.items = <<>>
    THEN Outcome(resp, Unset, Unset, Unset, Unset, Unset, Unset,
                 <<Msg("no_top_tokens", <<>>)>>, FALSE)
    ELSE Outcome(resp, Unset, Unset, Unset, Unset, Unset, Unset,
                 <<TopTokensMsg(top_tokens)>>, FALSE)

\* the callback identifiers main registers a CallbackQueryHandler for
CallbackPatterns ==
    {"analyze_token", "rug_pull_scan", "top_tokens", "full_analysis",
     "go_back_to_menu"}

\* the callback identifiers of the buttons under the given messages
ButtonsOf(msgs) ==
    UNION {{msgs[i].buttons[j] : j \in 1..Len(msgs[i].buttons)} : i \in 1..Len(msgs)}

Command(name) == [kind |-> "command", data |-> name, text |-> <<>>]
Callback(data) == [kind |-> "callback", data |-> data, text |-> <<>>]
Text(chars) == [kind |-> "text", data |-> "", text |-> chars]
NoUpdate == [kind |-> "none", data |-> "", text |-> <<>>]

---------------------------------------------------------------------------
(* Inputs of the bot specification *)

Rep(c, n) == [i \in 1..n |-> c]

EthAddress == <<48, 120>> \o Rep(97, 38) \o <<70, 57>>     \* 0xaa..aaF9: 0x + 40 hex
SolAddress == Rep(65, 31) \o <<122>>                       \* AA..AAz: 32 base58
BscLikeAddress == <<48, 120>> \o Rep(97, 39) \o <<103>>    \* 0xaa..aag: 42 alphanumeric
PaddedEthAddress == <<32>> \o EthAddress \o <<10>>         \* space before, newline after
\* form feed, vertical tab and an em space before, a no-break space,
\* carriage return and newline after
WrappedSolAddress == <<12, 11, 8195>> \o SolAddress \o <<160, 13, 10>>
Hello == <<104, 101, 108, 108, 111>>                   \* hello

Texts == {EthAddress, PaddedEthAddress, WrappedSolAddress, BscLikeAddress, Hello}

\* the strings of the responses
DexUniswap == Str(<<117, 110, 105, 115, 119, 97, 112>>)      \* "uniswap"
DexRaydium == Str(<<114, 97, 121, 100, 105, 117, 109>>)      \* "raydium"
DexPancake == Str(<<112, 97, 110, 99, 97, 107, 101>>)        \* "pancake"
DexOrca == Str(<<111, 114, 99, 97>>)                         \* "orca"
DexMeteora == Str(<<109, 101, 116, 101, 111, 114, 97>>)      \* "meteora"
DexJupiter == Str(<<106, 117, 112, 105, 116, 101, 114>>)     \* "jupiter"
DexPlain == Str(<<100, 101, 120>>)                           \* "dex"
Price15 == Str(<<49, 46, 53>>)                               \* "1.5"
Price02 == Str(<<48, 46, 50>>)                               \* "0.2"
Price01 == Str(<<48, 46, 49>>)                               \* "0.1"
UrlPair == Str(<<104, 116, 116, 112, 115, 58, 47, 47, 100, 101, 120, 47, 49>>) \* "https://dex/1"
UrlTokenT == Str(<<104, 116, 116, 112, 115, 58, 47, 47, 100, 101, 120, 47, 116>>) \* "https://dex/t"
UrlTokenU == Str(<<104, 116, 116, 112, 115, 58, 47, 47, 100, 101, 120, 47, 117>>) \* "https://dex/u"
Text10 == Str(<<49, 48>>)                                    \* "10"
Text9 == Str(<<57>>)                                         \* "9"
TextAb == Str(<<97, 98>>)                                    \* "ab"
EmptyStr == Str(<<>>)                                        \* ""

\* pairs as the market-data service may list them
PairHealthy ==
    Pair(DexUniswap, Price15, LiquidityObj(Num(30000)), Num(300000),
         Num(300000), PriceChangeObj(Absent, Num(10)), UrlPair)
PairSparse ==
    Pair(DexRaydium, Absent, LiquidityObj(Num(15000)), Absent, Absent,
         Absent, Absent)
PairNullCap ==
    Pair(DexPancake, Price02, LiquidityObj(Num(40000)), Null, Num(5),
         PriceChangeObj(Absent, Num(10)), Absent)
PairNullLiquidity ==
    Pair(DexOrca, Price02, Null, Num(100), Num(5), Absent, Absent)
\* amounts sent as strings: "9" sorts above "10"
PairText10 ==
    Pair(DexMeteora, Price01, LiquidityObj(Text10), Num(100), Num(5),
         Absent, Absent)
PairText9 ==
    Pair(DexJupiter, Price01, LiquidityObj(Text9), Num(100), Num(5),
         Absent, Absent)
\* the JSON object {}
EmptyObj == [t |-> "obj"]

BotResponses ==
    {NetworkError, HttpError, NotJson,
     JsonBody(Null), JsonBody(JList(<<>>)),
     JsonBody(PairsObj(Absent)), JsonBody(PairsObj(Null)),
     JsonBody(PairsObj(Num(5))),
     JsonBody(PairsObj(JList(<<>>))),
     JsonBody(PairsObj(JList(<<EmptyPair>>))),
     JsonBody(PairsObj(JList(<<PairHealthy>>))),
     JsonBody(PairsObj(JList(<<PairSparse>>))),
     JsonBody(PairsObj(JList(<<PairSparse, PairHealthy>>))),
     JsonBody(PairsObj(JList(<<PairNullCap>>))),
     JsonBody(PairsObj(JList(<<PairHealthy, PairNullLiquidity>>))),
     JsonBody(PairsObj(EmptyStr)), JsonBody(PairsObj(TextAb)),
     JsonBody(PairsObj(EmptyObj)),
     JsonBody(PairsObj(JList(<<PairText10, PairText9>>)))}

\* boosted tokens as the market-data service may list them
TokenBoosted == BoostedToken(UrlTokenT, Num(500))
TokenNoAmount == BoostedToken(UrlTokenU, Num(0))
TokenNullLink == BoostedToken(Null, Num(20))
TokenBare == BoostedToken(Absent, Absent)

BoostedResponses ==
    {NetworkError, HttpError, NotJson,
     JsonBody(Null), JsonBody(PairsObj(Absent)),
     JsonBody(JList(<<>>)),
     JsonBody(JList(<<TokenNoAmount, TokenNullLink>>)),
     JsonBody(JList(<<TokenBoosted, TokenNoAmount, TokenBare>>)),
     JsonBody(JList(<<TokenBoosted, Null>>)),
     JsonBody(JList(Rep(TokenBoosted, BoostedLimit) \o <<Null>>)),
     JsonBody(JList(Rep(TokenBoosted, BoostedLimit + 1)))}

BotTweets == {TweetsRaise, TweetsData(Null), TweetsData(JList(Rep("tweet", 3)))}
BotPosts == {<<>>, <<"post", "post">>, <<"raise">>, <<"post", "post", "raise">>}

---------------------------------------------------------------------------
(* The bot: one action per handler of a button or message the bot offers.  *)
(* The application handles one update at a time, so a handler runs to its  *)
(* end before the next starts. A button press can arrive in a session that *)
(* holds nothing yet: the buttons of earlier messages stay in the chat.    *)

Init ==
    /\ selected_option = "none"
    /\ token_address = Null
    /\ update = NoUpdate
    /\ response = Unset
    /\ tweets = Unset
    /\ posts = Unset
    /\ dex_pairs = Unset
    /\ preferred_pair = Unset
    /\ rug_pull_risk = Unset
    /\ social_media_mentions = Unset
    /\ chain = "unset"
    /\ sent = <<>>
    /\ raised = FALSE

\* /start
start ==
    /\ update' = Command("start")
    /\ Observe(Quiet(<<Msg("welcome", MainMenuButtons)>>))
    /\ UNCHANGED <<selected_option, token_address, chain>>

\* the "Analyze Token" button
analyze_token ==
    /\ update' = Callback("analyze_token")
    /\ Observe(Quiet(<<Msg("ask_address", <<>>)>>))
    /\ selected_option' = "analyze_token"
    /\ UNCHANGED <<token_address, chain>>

\* the "Rug Pull Scanner" / "Rug Pull Check" button
rug_pull_scan ==
    /\ update' = Callback("rug_pull_scan")
    /\ Observe(Quiet(<<Msg("ask_address_rug", <<>>)>>))
    /\ selected_option' = "rug_pull_scan"
    /\ UNCHANGED <<token_address, chain>>

\* the "Top Boosted Tokens" button: main registers its handler; the button
\* itself is commented out of the two menus, so only a menu sent by an
\* earlier release can deliver it
top_tokens ==
    /\ update' = Callback("top_tokens")
    /\ \E resp \in BoostedResponses : \E fetched \in BoostedOutcomes(resp) :
         Observe(TopPipeline(resp, fetched))
    /\ UNCHANGED <<selected_option, token_address, chain>>

\* a plausible slip: the button serving only a session that chose an option
full_token_analysisNeedsOption ==
    /\ update' = Callback("full_analysis")
    /\ IF token_address = Null \/ selected_option = "none"
       THEN Observe(Quiet(<<Msg("fetching", <<>>), Msg("no_address", <<>>)>>))
       ELSE \E resp \in BotResponses, tw \in BotTweets, rd \in BotPosts :
              Observe(FullPipeline(token_address, resp, tw, rd,
                                   <<Msg("fetching", <<>>)>>))
    /\ UNCHANGED <<selected_option, token_address, chain>>

\* the "Full Token Analysis" button
full_token_analysis ==
    /\ update' = Callback("full_analysis")
    /\ IF token_address = Null
       THEN Observe(Quiet(<<Msg("fetching", <<>>), Msg("no_address", <<>>)>>))
       ELSE \E resp \in BotResponses, tw \in BotTweets, rd \in BotPosts :
              Observe(FullPipeline(token_address, resp, tw, rd,
                                   <<Msg("fetching", <<>>)>>))
    /\ UNCHANGED <<selected_option, token_address, chain>>

\* handle_token_address on one text, the services answering from the given
\* sets: the format gate, the address stored, then the selected branch.
\* bot.py defines the function twice; the second definition is the one
\* bound when main registers it, and the one with the rug_pull_scan branch.
HandleText(text, responses, tws, rds) ==
    LET address == Strip(text)
    IN  /\ update' = Text(text)
        /\ IF ~ValidAddress(address)
           THEN /\ Observe(Quiet(<<Msg("invalid_address", <<"start">>)>>))
                /\ UNCHANGED <<selected_option, token_address, chain>>
           ELSE /\ token_address' = Addr(address)
                /\ IF selected_option = "analyze_token"
                   THEN \E resp \in responses, tw \in tws, rd \in rds :
                          Observe(SubmitPipeline("analyze_token", Addr(address),
                                      resp, tw, rd, <<Msg("analyzing", <<>>)>>))
                   ELSE IF selected_option = "rug_pull_scan"
                   THEN \E resp \in responses, tw \in tws, rd \in rds :
                          Observe(SubmitPipeline("rug_pull_scan", Addr(address),
                                      resp, tw, rd, <<Msg("checking", <<>>)>>))
                   ELSE Observe(Quiet(<<>>))
                /\ UNCHANGED <<selected_option, chain>>

\* a text message that is not a command
handle_token_address ==
    \E text \in Texts : HandleText(text, BotResponses, BotTweets, BotPosts)

\* a plausible slip: the way back to the menu starting the session afresh
go_back_to_menuClearing ==
    /\ update' = Callback("go_back_to_menu")
    /\ Observe(Quiet(<<Msg("welcome_back", MainMenuButtons)>>))
    /\ selected_option' = "none"
    /\ UNCHANGED <<token_address, chain>>

\* the "Go Back to Main Menu" button
go_back_to_menu ==
    /\ update' = Callback("go_back_to_menu")
    /\ Observe(Quiet(<<Msg("welcome_back", MainMenuButtons)>>))
    /\ UNCHANGED <<selected_option, token_address, chain>>

\* A button under the bot's last answer is pressed and no registered
\* pattern matches its callback identifier: the application finds no
\* handler and drops the update. Nothing is sent, nothing is stored.
DroppedCallback ==
    \E data \in ButtonsOf(sent) \ CallbackPatterns :
        /\ update' = Callback(data)
        /\ Observe(Quiet(<<>>))
        /\ UNCHANGED <<selected_option, token_address, chain>>

Next ==
    \/ start
    \/ analyze_token
    \/ rug_pull_scan
    \/ top_tokens
    \/ full_token_analysis
    \/ handle_token_address
    \/ go_back_to_menu
    \/ DroppedCallback

Spec == Init /\ [][Next]_vars

---------------------------------------------------------------------------
(* The classifier on its own: a pair is drawn, analyze_rug_pull_risk runs *)

LiquidityNumbers == {0, 3000, 4999, 5000, 9999, 10000, 15000, 20000, 20001,
                     25000, 25001, 30000}
MarketCapNumbers == {0, 50000, 80000, 99999, 100000, 250000, 250001, 300000}
ChangeNumbers == {-5, 0, 10, 50, 51, 60, 500, 501, 1000, 1001}
FdvNumbers == {0, 40000, 60000, 100000, 200001, 300000, 700000}

LiquidityInputs ==
    {Absent, Null, LiquidityObj(Absent), LiquidityObj(Null)}
        \cup {LiquidityObj(Num(n)) : n \in LiquidityNumbers}
MarketCapInputs == {Absent, Null} \cup {Num(n) : n \in MarketCapNumbers}
FdvInputs == {Absent, Null} \cup {Num(n) : n \in FdvNumbers}
PriceChangeInputs ==
    {Absent, Null, PriceChangeObj(Absent, Absent), PriceChangeObj(Absent, Null),
     PriceChangeObj(Null, Num(10)), PriceChangeObj(Num(60), Num(0)),
     PriceChangeObj(Num(0), Absent)}
        \cup {PriceChangeObj(Absent, Num(n)) : n \in ChangeNumbers}

ClassifierPairs ==
    {Pair(DexPlain, Absent, l, m, f, c, Absent) :
        l \in LiquidityInputs, m \in MarketCapInputs, f \in FdvInputs,
        c \in PriceChangeInputs}

InitClassify ==
    /\ selected_option = "none"
    /\ token_address = Null
    /\ update = NoUpdate
    /\ response = Unset
    /\ tweets = Unset
    /\ posts = Unset
    /\ dex_pairs = Unset
    /\ preferred_pair \in ClassifierPairs
    /\ rug_pull_risk = Unset
    /\ social_media_mentions = Unset
    /\ chain = "unset"
    /\ sent = <<>>
    /\ raised = FALSE

Classify ==
    /\ rug_pull_risk = Unset
    /\ rug_pull_risk' = analyze_rug_pull_risk(preferred_pair)
    /\ raised' = IsRaise(analyze_rug_pull_risk(preferred_pair))
    /\ UNCHANGED <<selected_option, token_address, update, response, tweets,
                   posts, dex_pairs, preferred_pair, social_media_mentions,
                   chain, sent>>

SpecClassify == InitClassify /\ [][Classify]_vars

---------------------------------------------------------------------------
(* The pair selector on its own: a collection is drawn, get_preferred_dex *)
(* runs                                                                    *)

MaxPairs == 3

SelectorPair(dexId, liquidity) ==
    Pair(Str(dexId), Absent, liquidity, Absent, Absent, Absent, Absent)

\* liquidity.usd a number or absent; some share their liquidity
SelectorPairs ==
    {SelectorPair(<<97>>, Absent), SelectorPair(<<98>>, LiquidityObj(Absent)),
     SelectorPair(<<99>>, LiquidityObj(Num(0))),
     SelectorPair(<<100>>, LiquidityObj(Num(100))),
     SelectorPair(<<101>>, LiquidityObj(Num(100))),
     SelectorPair(<<102>>, LiquidityObj(Num(500)))}

SeqsUpTo(S, n) == UNION {[1..k -> S] : k \in 0..n}

InitSelect ==
    /\ selected_option = "none"
    /\ token_address = Null
    /\ update = NoUpdate
    /\ response = Unset
    /\ tweets = Unset
    /\ posts = Unset
    /\ dex_pairs \in {JList(items) : items \in SeqsUpTo(SelectorPairs, MaxPairs)}
    /\ preferred_pair = Unset
    /\ rug_pull_risk = Unset
    /\ social_media_mentions = Unset
    /\ chain = "unset"
    /\ sent = <<>>
    /\ raised = FALSE

Select ==
    /\ preferred_pair = Unset
    /\ preferred_pair' = get_preferred_dex(dex_pairs)
    /\ raised' = IsRaise(get_preferred_dex(dex_pairs))
    /\ UNCHANGED <<selected_option, token_address, update, response, tweets,
                   posts, dex_pairs, rug_pull_risk, social_media_mentions,
                   chain, sent>>

SpecSelect == InitSelect /\ [][Select]_vars

---------------------------------------------------------------------------
(* The social mention client on its own *)

MaxTweets == 4
MaxPosts == 6

TweetOutcomes ==
    {TweetsRaise, TweetsData(Null)}
        \cup {TweetsData(JList(Rep("tweet", n))) : n \in 0..MaxTweets}
\* k posts, then the listing ends or fetching the next one raises
PostListings ==
    {Rep("post", k) : k \in 0..MaxPosts}
        \cup {Rep("post", k) \o <<"raise">> : k \in 0..MaxPosts}

InitSocial ==
    /\ selected_option = "none"
    /\ token_address = Null
    /\ update = NoUpdate
    /\ response = Unset
    /\ tweets \in TweetOutcomes
    /\ posts \in {Listing(l) : l \in PostListings}
    /\ dex_pairs = Unset
    /\ preferred_pair = Unset
    /\ rug_pull_risk = Unset
    /\ social_media_mentions = Unset
    /\ chain = "unset"
    /\ sent = <<>>
    /\ raised = FALSE

FetchMentions ==
    /\ social_media_mentions = Unset
    /\ social_media_mentions' = fetch_social_media_mentions(tweets, posts.items)
    /\ UNCHANGED <<selected_option, token_address, update, response, tweets,
                   posts, dex_pairs, preferred_pair, rug_pull_risk, chain, sent,
                   raised>>

SpecSocial == InitSocial /\ [][FetchMentions]_vars

---------------------------------------------------------------------------
(* The address patterns on their own: a text is drawn, then the address in *)
(* it (the stripped text) is tagged by detect_blockchain and the text is   *)
(* submitted to handle_token_address, in either order. An option is        *)
(* selected, so an accepted address runs the pipeline.                     *)

AddressLengths == {31, 32, 40, 41, 42, 43, 44, 45}
Fillers == {97, 71, 49, 48, 79, 108, 45}      \* a G 1 0 O l -
Shaped(prefix, filler, n) == prefix \o Rep(filler, n - Len(prefix))

AddressTexts ==
    {Shaped(prefix, filler, n) :
        prefix \in {<<>>, <<48, 120>>}, filler \in Fillers, n \in AddressLengths}
        \cup Texts

InitAddress ==
    /\ selected_option \in {"analyze_token", "rug_pull_scan"}
    /\ token_address = Null
    /\ update \in {Text(text) : text \in AddressTexts}
    /\ response = Unset
    /\ tweets = Unset
    /\ posts = Unset
    /\ dex_pairs = Unset
    /\ preferred_pair = Unset
    /\ rug_pull_risk = Unset
    /\ social_media_mentions = Unset
    /\ chain = "unset"
    /\ sent = <<>>
    /\ raised = FALSE

DetectChain ==
    /\ chain = "unset"
    /\ chain' = detect_blockchain(Strip(update.text))
    /\ UNCHANGED <<selected_option, token_address, update, response, tweets,
                   posts, dex_pairs, preferred_pair, rug_pull_risk,
                   social_media_mentions, sent, raised>>

SubmitAddress ==
    /\ sent = <<>>
    /\ HandleText(update.text, {NetworkError, JsonBody(PairsObj(JList(<<PairHealthy>>)))},
                  {TweetsRaise}, {<<>>})

NextAddress == DetectChain \/ SubmitAddress

SpecAddress == InitAddress /\ [][NextAddress]_vars

---------------------------------------------------------------------------
(* Claims about the classifier, checked under SpecClassify *)

Classified == rug_pull_risk # Unset

\* the pair read as the 4-tuple of numbers the specification speaks of:
\* every one of the four fields present and a number
HasFourNumbers(p) ==
    /\ p.liquidity.t = "obj" /\ IsNum(p.liquidity.usd)
    /\ IsNum(p.marketCap)
    /\ IsNum(p.fdv)
    /\ p.priceChange.t = "obj" /\ p.priceChange.percent = Absent
    /\ IsNum(p.priceChange.h24)
TupleOf(p) ==
    [liquidity |-> p.liquidity.usd.v, marketCap |-> p.marketCap.v,
     change |-> p.priceChange.h24.v, fdv |-> p.fdv.v]
NonNegative(q) ==
    q.liquidity >= 0 /\ q.marketCap >= 0 /\ q.change >= 0 /\ q.fdv >= 0

SixTiers == {"Low", "Moderate", "High", "Critical", "Extreme", "Low to Moderate"}
TierOfRule == <<"Low", "Moderate", "High", "Critical", "Extreme">>

\* the five rules as the specification lists them
RuleMatches(i, q) ==
    CASE i = 1 -> q.liquidity > 25000 /\ q.marketCap > 250000 /\ q.change <= 50
      [] i = 2 -> /\ 10000 <= q.liquidity /\ q.liquidity <= 20000
                  /\ (q.change > 50 \/ q.marketCap < 100000)
      [] i = 3 -> q.liquidity < 10000 \/ q.change <= 0
      [] i = 4 -> q.liquidity < 5000 \/ q.fdv < q.marketCap
      [] i = 5 -> q.change > 1000 \/ q.fdv > 2 * q.marketCap

\* the tier of the first rule that matches, the fallback when none does
FirstMatchTier(q) ==
    LET matching == {i \in 1..5 : RuleMatches(i, q)}
    IN  IF matching = {} THEN "Low to Moderate"
        ELSE TierOfRule[CHOOSE i \in matching : \A j \in matching : i <= j]

\* C1: for every 4-tuple of non-negative numbers the classifier returns one
\* of the six tiers, the tier of the first rule that matches in the fixed
\* order; (30000, 300000, 10, any fdv) gives Low and (15000, 80000, 60, any
\* fdv) gives Moderate.
C1_FirstMatchWins ==
    (Classified /\ HasFourNumbers(preferred_pair)
        /\ NonNegative(TupleOf(preferred_pair)))
    => LET q == TupleOf(preferred_pair)
       IN  /\ rug_pull_risk.t = "verdict"
           /\ rug_pull_risk.tier \in SixTiers
           /\ rug_pull_risk.tier = FirstMatchTier(q)
           /\ (q.liquidity = 30000 /\ q.marketCap = 300000 /\ q.change = 10)
                => rug_pull_risk.tier = "Low"
           /\ (q.liquidity = 15000 /\ q.marketCap = 80000 /\ q.change = 60)
                => rug_pull_risk.tier = "Moderate"

\* the Moderate example has been classified, rule 3 would match it too
C1_Witness ==
    /\ Classified
    /\ HasFourNumbers(preferred_pair)
    /\ TupleOf(preferred_pair) =
         [liquidity |-> 15000, marketCap |-> 80000, change |-> 60, fdv |-> 0]
    /\ RuleMatches(4, TupleOf(preferred_pair))
    /\ rug_pull_risk.tier = "Moderate"

\* a field that is absent or null, read as 0
ZeroIfMissing(x) == IF x = Absent \/ x = Null THEN Num(0) ELSE x
Zeroed(p) ==
    [p EXCEPT !.liquidity =
                 IF p.liquidity = Absent \/ p.liquidity = Null
                 THEN LiquidityObj(Num(0))
                 ELSE LiquidityObj(ZeroIfMissing(p.liquidity.usd)),
              !.marketCap = ZeroIfMissing(p.marketCap),
              !.fdv = ZeroIfMissing(p.fdv),
              !.priceChange =
                 IF p.priceChange = Absent \/ p.priceChange = Null
                 THEN PriceChangeObj(Absent, Num(0))
                 ELSE PriceChangeObj(Absent, ZeroIfMissing(p.priceChange.h24))]
\* the 24h change is given by the h24 key, if at all
OnlyH24(p) == p.priceChange.t = "obj" => p.priceChange.percent = Absent

\* C2: the classifier has no error path: whatever fields are numbers, absent
\* or null, it returns a verdict, the one of the same pair with 0 in place
\* of every absent or null field; the all-default pair is classified High.
C2_NoErrorPath ==
    (Classified /\ OnlyH24(preferred_pair))
    => /\ rug_pull_risk.t = "verdict"
       /\ HasFourNumbers(Zeroed(preferred_pair))
       /\ rug_pull_risk.tier = FirstMatchTier(TupleOf(Zeroed(preferred_pair)))
       /\ TupleOf(Zeroed(preferred_pair)) =
            [liquidity |-> 0, marketCap |-> 0, change |-> 0, fdv |-> 0]
          => rug_pull_risk.tier = "High"

\* liquidity=3000, marketCap=50000, fdv=60000, the price change left out
C3_ExamplePair ==
    Pair(DexPlain, Absent, LiquidityObj(Num(3000)), Num(50000), Num(60000),
         Absent, Absent)

\* C3 as stated: the example pair is classified Critical.
C3_ExampleIsCritical ==
    (Classified /\ preferred_pair = C3_ExamplePair)
    => rug_pull_risk.t = "verdict" /\ rug_pull_risk.tier = "Critical"

\* C3, amended: the example pair is classified High: its liquidity is below
\* 10000 and its price change is 0, so rule 3 matches before rule 4, which
\* it matches too, is looked at.
C3_ExampleIsHigh ==
    (Classified /\ preferred_pair = C3_ExamplePair)
    => /\ rug_pull_risk.t = "verdict"
       /\ rug_pull_risk.tier = "High"
       /\ rug_pull_risk.liquidity = 3000
       /\ rug_pull_risk.price_change_percentage = 0

\* the example pair has been classified
C3_Witness ==
    /\ Classified
    /\ preferred_pair = C3_ExamplePair
    /\ rug_pull_risk.t = "verdict"
    /\ RuleMatches(4, [liquidity |-> 3000, marketCap |-> 50000, change |-> 0,
                       fdv |-> 60000])

\* the four levels as the specification defines them
LevelOfLiquidity(q) ==
    IF q.liquidity > 25000 THEN "High"
    ELSE IF 10000 <= q.liquidity /\ q.liquidity <= 25000 THEN "Medium"
    ELSE "Low"
LevelOfMarketCap(q) ==
    IF q.marketCap > 250000 THEN "High"
    ELSE IF 100000 <= q.marketCap /\ q.marketCap <= 250000 THEN "Medium"
    ELSE "Low"
LevelOfChange(q) ==
    IF q.change > 500 THEN "Volatile"
    ELSE IF q.change <= 0 THEN "Negative"
    ELSE "Stable"
FdvRelation(q) ==
    IF q.fdv < q.marketCap THEN "FDV Lower Than Market Cap"
    ELSE IF q.fdv > q.marketCap THEN "FDV Higher Than Market Cap"
    ELSE "Balanced"

\* the numbers a verdict prints, as a 4-tuple; the text does not print the
\* fdv, so it is taken from the pair
PrintedTuple(v, p) ==
    [liquidity |-> v.liquidity, marketCap |-> v.market_cap,
     change |-> v.price_change_percentage,
     fdv |-> IF p.fdv = Absent THEN 0 ELSE p.fdv.v]

\* C11: every verdict carries the four derived levels, each computed from
\* the pair alone by the specification's thresholds, whichever tier the
\* verdict names: liquidity High above 25000, Medium from 10000 to 25000,
\* else Low; market cap High above 250000, Medium from 100000 to 250000,
\* else Low; price change Volatile above 500, Negative at 0 or below, else
\* Stable; FDV Lower, Higher or Balanced against the market cap.
C11_LevelsFromPairAlone ==
    (Classified /\ rug_pull_risk.t = "verdict")
    => LET q == PrintedTuple(rug_pull_risk, preferred_pair)
       IN  /\ rug_pull_risk.tier \in SixTiers
           /\ HasFourNumbers(preferred_pair) => q = TupleOf(preferred_pair)
           /\ rug_pull_risk.liquidity_level = LevelOfLiquidity(q)
           /\ rug_pull_risk.market_cap_level = LevelOfMarketCap(q)
           /\ rug_pull_risk.price_change_level = LevelOfChange(q)
           /\ rug_pull_risk.fdv_vs_market_cap = FdvRelation(q)

\* a pair on the upper edge of both Medium levels has been classified, and
\* its tier is the fallback, not Moderate
C11_Witness ==
    /\ Classified
    /\ HasFourNumbers(preferred_pair)
    /\ TupleOf(preferred_pair) =
         [liquidity |-> 25000, marketCap |-> 250000, change |-> 501,
          fdv |-> 300000]
    /\ rug_pull_risk.tier = "Low to Moderate"
    /\ rug_pull_risk.liquidity_level = "Medium"
    /\ rug_pull_risk.market_cap_level = "Medium"
    /\ rug_pull_risk.price_change_level = "Volatile"
    /\ rug_pull_risk.fdv_vs_market_cap = "FDV Higher Than Market Cap"

\* one tuple of non-negative numbers for each tier
TierExample ==
    [tier \in SixTiers |->
        CASE tier = "Low" ->
               [liquidity |-> 30000, marketCap |-> 300000, change |-> 10,
                fdv |-> 300000]
          [] tier = "Moderate" ->
               [liquidity |-> 15000, marketCap |-> 80000, change |-> 60,
                fdv |-> 0]
          [] tier = "High" ->
               [liquidity |-> 3000, marketCap |-> 50000, change |-> 10,
                fdv |-> 60000]
          [] tier = "Critical" ->
               [liquidity |-> 30000, marketCap |-> 300000, change |-> 60,
                fdv |-> 100000]
          [] tier = "Extreme" ->
               [liquidity |-> 30000, marketCap |-> 300000, change |-> 1001,
                fdv |-> 300000]
          [] tier = "Low to Moderate" ->
               [liquidity |-> 30000, marketCap |-> 300000, change |-> 60,
                fdv |-> 300000]]

\* the pair that holds the tuple's four numbers
PairOfTuple(q) ==
    Pair(DexPlain, Absent, LiquidityObj(Num(q.liquidity)), Num(q.marketCap),
         Num(q.fdv), PriceChangeObj(Absent, Num(q.change)), Absent)

\* C14: each of the six tiers is returned for at least one tuple of
\* non-negative numbers: for every tier there is a tuple that the rules
\* before the tier's own rule let through and the classifier gives that
\* tier, the Critical rule and the final fallback included.
C14_EveryTierReturned ==
    /\ \A tier \in SixTiers :
         /\ NonNegative(TierExample[tier])
         /\ FirstMatchTier(TierExample[tier]) = tier
         /\ analyze_rug_pull_risk(PairOfTuple(TierExample[tier])).tier = tier
    /\ (Classified /\ HasFourNumbers(preferred_pair))
         => \A tier \in SixTiers :
              TupleOf(preferred_pair) = TierExample[tier]
              => rug_pull_risk.t = "verdict" /\ rug_pull_risk.tier = tier

\* a pair has been classified Critical: its liquidity is high, its fdv is
\* below its market cap, and none of the three rules before the Critical
\* rule matches it
C14_Witness ==
    /\ Classified
    /\ HasFourNumbers(preferred_pair)
    /\ TupleOf(preferred_pair) = TierExample["Critical"]
    /\ \A i \in 1..3 : ~RuleMatches(i, TupleOf(preferred_pair))
    /\ rug_pull_risk.tier = "Critical"

---------------------------------------------------------------------------
(* Claims about the social mention client, checked under SpecSocial *)

Fetched == social_media_mentions # Unset

TwitterFailed == tweets.t = "raise"
TweetsReturned == IF tweets.t = "resp" /\ tweets.data.t = "list"
                  THEN Len(tweets.data.items) ELSE 0
\* the search listing raised before it ended or reached the result limit
RedditFailed ==
    \E i \in 1..Len(posts.items) : i <= ResultLimit /\ posts.items[i] = "raise"
PostsReturned ==
    LET n == Cardinality({i \in 1..Len(posts.items) : posts.items[i] = "post"})
    IN  IF n > ResultLimit THEN ResultLimit ELSE n

\* C5: the two sources are independent: a source that fails, at any point
\* of its query, is reported as 0, the other one is still queried and its
\* count reported unchanged, and the function returns; source A returning 3
\* with source B failing gives {A: 3, B: 0}.
C5_FailedSourceCountsZero ==
    Fetched
    => /\ social_media_mentions.t = "mentions"
       /\ TwitterFailed => social_media_mentions.Twitter = 0
       /\ ~TwitterFailed => social_media_mentions.Twitter = TweetsReturned
       /\ RedditFailed => social_media_mentions.Reddit = 0
       /\ ~RedditFailed => social_media_mentions.Reddit = PostsReturned

---------------------------------------------------------------------------
(* Claims about the pair selector, checked under SpecSelect *)

Selected == preferred_pair # Unset

\* liquidity.usd, 0 when absent
LiquidityOf(p) ==
    IF p.liquidity = Absent THEN 0
    ELSE IF p.liquidity.usd = Absent THEN 0
    ELSE p.liquidity.usd.v

\* the first index that holds the collection's largest liquidity
FirstMaxIndex(items) ==
    CHOOSE i \in 1..Len(items) :
        /\ \A j \in 1..Len(items) : LiquidityOf(items[j]) <= LiquidityOf(items[i])
        /\ \A j \in 1..(i - 1) : LiquidityOf(items[j]) < LiquidityOf(items[i])

\* C6: get_preferred_dex returns the empty record for an empty collection,
\* and for a non-empty one an element of the largest liquidity.usd (0 when
\* absent), the first such element of the input.
C6_FirstMaxLiquidity ==
    Selected
    => IF dex_pairs.items = <<>>
       THEN preferred_pair = EmptyPair
       ELSE /\ \E i \in 1..Len(dex_pairs.items) : preferred_pair = dex_pairs.items[i]
            /\ \A j \in 1..Len(dex_pairs.items) :
                 LiquidityOf(dex_pairs.items[j]) <= LiquidityOf(preferred_pair)
            /\ preferred_pair = dex_pairs.items[FirstMaxIndex(dex_pairs.items)]

\* two different pairs share the largest liquidity, a smaller one stands
\* between them, and the earlier of the two has been returned
C6_Witness ==
    /\ Selected
    /\ Len(dex_pairs.items) = 3
    /\ dex_pairs.items[1] # dex_pairs.items[3]
    /\ LiquidityOf(dex_pairs.items[1]) = LiquidityOf(dex_pairs.items[3])
    /\ LiquidityOf(dex_pairs.items[2]) < LiquidityOf(dex_pairs.items[1])
    /\ preferred_pair = dex_pairs.items[1]

---------------------------------------------------------------------------
(* Claims about the address gate, checked under SpecAddress *)

\* the shapes as the specification words them
ShapeEthereum(a) ==
    /\ Len(a) = 42 /\ a[1] = 48 /\ a[2] = 120     \* "0x"
    /\ \A i \in 3..42 : a[i] \in HexChar
ShapePolygon(a) == ShapeEthereum(a)
ShapeSolana(a) ==
    /\ Len(a) >= 32 /\ Len(a) <= 44
    /\ \A i \in 1..Len(a) : a[i] \in AlnumChar \ {48, 79, 73, 108}    \* 0 O I l
WellFormed(a) == ShapeEthereum(a) \/ ShapeSolana(a)

SubmittedAddress == Strip(update.text)
Handled == update.kind = "text" /\ sent # <<>>
Tagged == chain # "unset"

\* the gate let the address through: it is stored and the pipeline ran
GateAccepted ==
    /\ token_address = Addr(SubmittedAddress)
    /\ response # Unset
\* the gate stopped it: the corrective reply, nothing stored, nothing called
GateRejected ==
    /\ sent = <<Msg("invalid_address", <<"start">>)>>
    /\ token_address = Null
    /\ response = Unset /\ dex_pairs = Unset /\ rug_pull_risk = Unset
    /\ social_media_mentions = Unset

\* C10 as stated: the gate accepts only 0x+40-hex or Solana addresses, and
\* every address tagged "Binance" or of the Polygon shape is rejected.
C10_BinanceAndPolygonRejected ==
    (Handled /\ Tagged)
    => /\ GateAccepted => WellFormed(SubmittedAddress)
       /\ chain = "Binance" => GateRejected
       /\ ShapePolygon(SubmittedAddress) => GateRejected

\* C10, amended: the gate accepts exactly the 0x+40-hex and the Solana
\* base58-like addresses and rejects every other one; every address that
\* detect_blockchain tags "Binance" is rejected; an address of the Polygon
\* shape, which is the Ethereum shape, is accepted, and is tagged
\* "Ethereum", never "Polygon".
C10_BinanceRejectedPolygonAccepted ==
    (Handled /\ Tagged)
    => /\ GateAccepted <=> WellFormed(SubmittedAddress)
       /\ ~GateAccepted => GateRejected
       /\ chain = "Binance" => GateRejected
       /\ ShapePolygon(SubmittedAddress) => (GateAccepted /\ chain = "Ethereum")
       /\ chain # "Polygon"

\* an address tagged "Binance" has been submitted and turned away
C10_Witness ==
    /\ Handled
    /\ chain = "Binance"
    /\ GateRejected

---------------------------------------------------------------------------
(* Claims about the handlers, checked under Spec *)

OptionSelected == selected_option \in {"analyze_token", "rug_pull_scan"}
LastSent == sent[Len(sent)]
ReportSent == sent # <<>> /\ LastSent.text = "report"

\* the market-data fetch was made and gave no pair
NoPairFetched == dex_pairs # Unset /\ Falsy(dex_pairs)

\* C4: whatever the services answer, handling a format-valid address with
\* an option selected never raises and ends by sending a report.
C4_AlwaysReports ==
    (update.kind = "text" /\ WellFormed(SubmittedAddress) /\ OptionSelected)
    => ~raised /\ ReportSent

\* C7: when the fetch yields no pair, no handler path invokes the
\* classifier, and no risk verdict appears in the reply.
C7_NoPairNoVerdict ==
    NoPairFetched
    => /\ rug_pull_risk = Unset
       /\ \A i \in 1..Len(sent) : sent[i].report = NoReport

\* every pair field the report prints is its placeholder
AllPlaceholders(fields) ==
    /\ fields.DEX = NA
    /\ fields.Price = NotAvailable
    /\ fields.Liquidity = NotAvailable
    /\ fields.MarketCap = NotAvailable
    /\ fields.FDV \in {NotAvailable, NotShown}
    /\ fields.Change24h \in {NotAvailable, NotShown}
    /\ fields.URL \in {NA, NotShown}

PlaceholderReportSent ==
    /\ ~raised
    /\ ReportSent
    /\ LastSent.report.token_address = token_address
    /\ AllPlaceholders(LastSent.report.fields)

\* C8: with no pair fetched for a stored, valid address, every report
\* path, the full_analysis button included, sends the report with every
\* pair field as its placeholder.
C8_PlaceholderReportOnEveryPath ==
    (NoPairFetched /\ token_address # Null)
    => PlaceholderReportSent

\* C9: a text that fails the format validation gets the one corrective
\* reply and nothing else: no service is called, the classifier does not
\* run, and the stored address and option stay as they were.
C9_InvalidTextOnlyCorrected ==
    [][(update'.kind = "text" /\ ~WellFormed(Strip(update'.text)))
        => /\ sent' = <<Msg("invalid_address", <<"start">>)>>
           /\ ~raised'
           /\ response' = Unset /\ dex_pairs' = Unset /\ preferred_pair' = Unset
           /\ rug_pull_risk' = Unset
           /\ tweets' = Unset /\ posts' = Unset /\ social_media_mentions' = Unset
           /\ selected_option' = selected_option
           /\ token_address' = token_address]_vars

\* a malformed text was turned away in a session that holds an address and
\* an option
C9_Witness ==
    /\ update.kind = "text"
    /\ ~WellFormed(SubmittedAddress)
    /\ sent = <<Msg("invalid_address", <<"start">>)>>
    /\ token_address # Null
    /\ OptionSelected

\* the update just handled is a press of one of the two option buttons
OptionPressed(u) ==
    u.kind = "callback" /\ u.data \in {"analyze_token", "rug_pull_scan"}
\* the update just handled is a text whose address passes the validation
ValidSubmitted(u) == u.kind = "text" /\ WellFormed(Strip(u.text))

\* C12: across any sequence of chat events, selected_option is the option
\* of the latest analyze_token or rug_pull_scan press and token_address the
\* latest submitted address that passed validation: each such event writes
\* its field, whatever the handler does afterwards; every other event
\* (/start, go_back_to_menu, full_analysis, an invalid text, any other
\* button) leaves both as they were; no event sets a field back to empty.
C12_SessionFollowsLastEvent ==
    [][/\ OptionPressed(update') => selected_option' = update'.data
       /\ ~OptionPressed(update') => selected_option' = selected_option
       /\ ValidSubmitted(update') => token_address' = Addr(Strip(update'.text))
       /\ ~ValidSubmitted(update') => token_address' = token_address
       /\ selected_option # "none" => selected_option' # "none"
       /\ token_address # Null => token_address' # Null]_vars

\* the way back to the menu was taken in a session that holds an option and
\* an address, and both are still there
C12_Witness ==
    /\ update = Callback("go_back_to_menu")
    /\ sent = <<Msg("welcome_back", MainMenuButtons)>>
    /\ selected_option = "rug_pull_scan"
    /\ token_address = Addr(SolAddress)

\* C13: every callback identifier of a button the bot sends has a
\* registered entry point, so a press of an offered button is always
\* answered by a handler.
C13_EveryButtonAnswered ==
    /\ ButtonsOf(sent) \subseteq CallbackPatterns
    /\ update.kind = "callback" => (sent # <<>> \/ raised)

\* C15: a format-valid address submitted while no option is selected is
\* stored, with no reply and no market-data, classifier or social-source
\* call; a full_analysis press in such a session then works on the stored
\* address: it fetches the market data and any report it sends is for that
\* address.
C15_UnselectedAddressStoredSilently ==
    [][/\ (ValidSubmitted(update') /\ selected_option = "none")
            => /\ token_address' = Addr(Strip(update'.text))
               /\ selected_option' = "none"
               /\ sent' = <<>> /\ ~raised'
               /\ response' = Unset /\ dex_pairs' = Unset
               /\ preferred_pair' = Unset /\ rug_pull_risk' = Unset
               /\ tweets' = Unset /\ posts' = Unset
               /\ social_media_mentions' = Unset
       /\ (update' = Callback("full_analysis") /\ selected_option = "none"
                /\ token_address # Null)
            => /\ token_address' = token_address
               /\ response' # Unset /\ dex_pairs' # Unset
               /\ \A i \in 1..Len(sent') : sent'[i].text # "no_address"
               /\ ReportSent' => LastSent'.report.token_address = token_address
      ]_vars

\* in a session that never selected an option, the address submitted
\* earlier has been analysed on a full_analysis press
C15_Witness ==
    /\ update = Callback("full_analysis")
    /\ selected_option = "none"
    /\ token_address = Addr(EthAddress)
    /\ ReportSent
    /\ LastSent.report.token_address = Addr(EthAddress)
    /\ rug_pull_risk.t = "verdict"

====
